---- MODULE Spec2Model ----
(***************************************************************************)
(* SharkGuard: the Streamlit script app.py (model cache, sidebar model     *)
(* controls, the Analyze pipeline and its heuristic rule block) and the    *)
(* Etherscan wrapper utils/etherscan.py.                                   *)
(*                                                                         *)
(* Units.  repeated_ratio is counted in hundredths (60 = 0.6) and          *)
(* hour_entropy in tenths (10 = 1.0, 100 = 10); tx_count and               *)
(* tx_freq_per_day are plain integers.                                     *)
(***************************************************************************)
EXTENDS Integers, Sequences, FiniteSets, TLC

\* ------------------------------------------------------------------ bounds
\* Longest raw transaction list the transaction source returns.
MaxTx == 2

\* ------------------------------------------------- heuristic rule constants
FewTxThreshold == 3
HighFreqThreshold == 50
RepeatedRatioThreshold == 60
LowEntropyThreshold == 10
TxCountDefault == 0
FreqDefault == 0
RatioDefault == 0
EntropyDefault == 100

\* The flag texts of app.py 181-189, in ASCII.
FlagFewTx == "Very few transactions - new or dormant account"
FlagHighFreq == "Extremely high transaction frequency - bot-like behavior"
FlagRepeated == "High repeated_ratio - interacting with the same counterparty often"
FlagLowEntropy == "Low hour entropy - very regular timing"
FlagNone == "No strong heuristic flags detected"

RuleFlags == {FlagFewTx, FlagHighFreq, FlagRepeated, FlagLowEntropy}

Keys == {"tx_count", "tx_freq_per_day", "repeated_ratio", "hour_entropy"}

\* feat.get(key, default) on a dict modelled as a function over its keys.
Get(feat, key, default) == IF key \in DOMAIN feat THEN feat[key] ELSE default

FewTxFires(feat) == Get(feat, "tx_count", TxCountDefault) < FewTxThreshold
HighFreqFires(feat) == Get(feat, "tx_freq_per_day", FreqDefault) > HighFreqThreshold
RepeatedFires(feat) == Get(feat, "repeated_ratio", RatioDefault) > RepeatedRatioThreshold
LowEntropyFires(feat) == Get(feat, "hour_entropy", EntropyDefault) < LowEntropyThreshold

\* expl.append(flag) when the rule's condition holds
AppendIf(expl, cond, flag) == IF cond THEN Append(expl, flag) ELSE expl

\* Mutant: the thresholds compared non-strictly (<= 3, >= 50, >= 0.6, <= 1.0).
HeuristicFlags_NonStrict(feat) ==
  LET e1 == AppendIf(<<>>, Get(feat, "tx_count", TxCountDefault) <= FewTxThreshold, FlagFewTx)
      e2 == AppendIf(e1, Get(feat, "tx_freq_per_day", FreqDefault) >= HighFreqThreshold, FlagHighFreq)
      e3 == AppendIf(e2, Get(feat, "repeated_ratio", RatioDefault) >= RepeatedRatioThreshold, FlagRepeated)
      e4 == AppendIf(e3, Get(feat, "hour_entropy", EntropyDefault) <= LowEntropyThreshold, FlagLowEntropy)
  IN  IF e4 = <<>> THEN <<FlagNone>> ELSE e4

\* Mutant: the "no flags" entry appended without the `if not expl` test.
HeuristicFlags_AlwaysNone(feat) ==
  LET e1 == AppendIf(<<>>, FewTxFires(feat), FlagFewTx)
      e2 == AppendIf(e1, HighFreqFires(feat), FlagHighFreq)
      e3 == AppendIf(e2, RepeatedFires(feat), FlagRepeated)
      e4 == AppendIf(e3, LowEntropyFires(feat), FlagLowEntropy)
  IN  Append(e4, FlagNone)

\* Mutant: the hour-entropy rule falls back to 0 and compares the wrong way
\* round for the sentinel (fires on a high entropy).
HeuristicFlags_EntropyFlipped(feat) ==
  LET e1 == AppendIf(<<>>, FewTxFires(feat), FlagFewTx)
      e2 == AppendIf(e1, HighFreqFires(feat), FlagHighFreq)
      e3 == AppendIf(e2, RepeatedFires(feat), FlagRepeated)
      e4 == AppendIf(e3, Get(feat, "hour_entropy", 0) > LowEntropyThreshold, FlagLowEntropy)
  IN  IF e4 = <<>> THEN <<FlagNone>> ELSE e4

\* app.py 179-189: the heuristic explanations block.
HeuristicFlags(feat) ==
  LET e1 == AppendIf(<<>>, FewTxFires(feat), FlagFewTx)
      e2 == AppendIf(e1, HighFreqFires(feat), FlagHighFreq)
      e3 == AppendIf(e2, RepeatedFires(feat), FlagRepeated)
      e4 == AppendIf(e3, LowEntropyFires(feat), FlagLowEntropy)
  IN  IF e4 = <<>> THEN <<FlagNone>> ELSE e4

\* ------------------------------------------------------- utils/etherscan.py
\* The "result" list: up to MaxTx raw transaction records (dicts), each
\* written "tx".
RawRecords == {"tx"}
RawLists == UNION {[1..n -> RawRecords] : n \in 0..MaxTx}

ListVal(items) == [kind |-> "list", items |-> items]
NoneVal == [kind |-> "none", items |-> <<>>]
EmptyList == ListVal(<<>>)

\* The "result" member of the JSON object: absent, null, or a list of records.
ResultVals == {[kind |-> "missing", items |-> <<>>], NoneVal} \cup {ListVal(l) : l \in RawLists}

\* Outcomes of requests.get / raise_for_status / r.json.
FailedResponses ==
  {[kind |-> k, status |-> "missing", result |-> [kind |-> "missing", items |-> <<>>]] :
     k \in {"conn_error", "http_error", "not_json", "non_object"}}
ObjectResponses ==
  {[kind |-> "object", status |-> st, result |-> rv] :
     st \in {"1", "0", "missing"}, rv \in ResultVals}
Responses == FailedResponses \cup ObjectResponses

Returned(v) == [raised |-> FALSE, value |-> v]
Raised == [raised |-> TRUE, value |-> NoneVal]

\* etherscan.py 37-39: the except block prints a warning (which itself may
\* fail on a stream that cannot take it) and returns [].
ExceptBlock(printOk) == IF printOk THEN Returned(EmptyList) ELSE Raised

\* etherscan.py 16-39
fetch_transactions(r, printOk) ==
  IF r.kind \in {"conn_error", "http_error", "not_json"}
    THEN ExceptBlock(printOk)                \* get / raise_for_status / json raises
  ELSE IF r.kind = "non_object"
    THEN ExceptBlock(printOk)                \* data.get raises AttributeError
  ELSE IF r.status # "1"
    THEN Returned(EmptyList)
  ELSE IF r.result.kind = "missing"
    THEN Returned(EmptyList)                 \* data.get("result", [])
  ELSE Returned(r.result)                    \* the stored value: a list, or null

\* app.py 41-43: the stub used when utils.etherscan cannot be imported.
fetch_transactions_stub == Returned(EmptyList)


\* ------------------------------------------------------- model artifact
\* Contents of the file at MODEL_PATH: no file, a file being written, or a
\* complete blob.  blob_m1/blob_m2 hold fitted models with the current feature
\* schema, blob_other_schema a model fitted on another schema, corrupt is not a
\* model artifact at all.
GoodBlobs == {"blob_m1", "blob_m2"}
Blobs == GoodBlobs \cup {"blob_other_schema", "corrupt"}

NoModel == "None"
Unfitted == "unfitted"

\* SharkGuardModel.load: what a blob deserializes to; rejects anything else.
Loadable(blob) == blob \in GoodBlobs \cup {"blob_other_schema"}
Deserialize(blob) ==
  CASE blob = "blob_m1" -> "m1"
    [] blob = "blob_m2" -> "m2"
    [] blob = "blob_other_schema" -> "m_other_schema"
    [] OTHER -> NoModel
Models == {Deserialize(b) : b \in {x \in Blobs : Loadable(x)}}

\* SharkGuardModel.predict_score: returns a result for a fitted model whose
\* schema is the vector's, raises otherwise.
PredictReturns(model, feat) == model \in {"m1", "m2"} /\ DOMAIN feat = Keys

\* app.py 45-50: load_model under st.cache_resource.  The argument is always
\* str(MODEL_PATH), so the cache has one entry: a hit returns the stored object
\* without touching the file, a miss deserializes the file and stores the result,
\* and a call that raises stores nothing.
load_model(file, cache) ==
  IF cache # "miss"
    THEN [ok |-> TRUE, model |-> cache, cache |-> cache, src |-> "cache"]
  ELSE IF Loadable(file)
    THEN [ok |-> TRUE, model |-> Deserialize(file), cache |-> Deserialize(file), src |-> file]
  ELSE [ok |-> FALSE, model |-> NoModel, cache |-> "miss", src |-> file]

NotLoaded == [ok |-> FALSE, src |-> "none"]
LoadRecord(l) == [ok |-> l.ok, src |-> l.src]

\* Mutant: the handle is constructed outside load_model and survives a failed
\* load as an unfitted model.
StartupBlock_KeepsHandle(file, cache) ==
  IF file = "absent"
    THEN [sg |-> NoModel, status |-> "Not loaded", cache |-> cache, loaded |-> NotLoaded]
    ELSE LET l == load_model(file, cache)
         IN  IF l.ok
               THEN [sg |-> l.model, status |-> "Loaded", cache |-> l.cache, loaded |-> LoadRecord(l)]
               ELSE [sg |-> Unfitted, status |-> "Failed to load", cache |-> l.cache,
                     loaded |-> LoadRecord(l)]

\* app.py 64-72: model status / startup load.
StartupBlock(file, cache) ==
  IF file = "absent"
    THEN [sg |-> NoModel, status |-> "Not loaded", cache |-> cache, loaded |-> NotLoaded]
    ELSE LET l == load_model(file, cache)
         IN  IF l.ok
               THEN [sg |-> l.model, status |-> "Loaded", cache |-> l.cache, loaded |-> LoadRecord(l)]
               ELSE [sg |-> NoModel, status |-> "Failed to load", cache |-> l.cache,
                     loaded |-> LoadRecord(l)]

\* ------------------------------------------------------- Analyze pipeline
Vec(c, f, r, e) ==
  [k \in Keys |-> CASE k = "tx_count" -> c
                    [] k = "tx_freq_per_day" -> f
                    [] k = "repeated_ratio" -> r
                    [] k = "hour_entropy" -> e]
NoFeat == [k \in {} |-> 0]

\* Mutant: a raising fetch leaves txs without a list.
FetchBlock_NoReset(key, call) ==
  IF ~key
    THEN [txs |-> EmptyList, fetched |-> "skipped", msg |-> "info_no_key"]
  ELSE IF call.raised
    THEN [txs |-> NoneVal, fetched |-> "raised", msg |-> "err_fetch"]
  ELSE [txs |-> call.value, fetched |-> "returned", msg |-> "none"]

\* app.py 141-151: txs = []; fetch only with a key; a raising fetch resets txs.
FetchBlock(key, call) ==
  IF ~key
    THEN [txs |-> EmptyList, fetched |-> "skipped", msg |-> "info_no_key"]
  ELSE IF call.raised
    THEN [txs |-> EmptyList, fetched |-> "raised", msg |-> "err_fetch"]
  ELSE [txs |-> call.value, fetched |-> "returned", msg |-> "none"]

\* txs_to_dataframe: one row per record of the list; the table is modelled by
\* its number of rows.  A value that is not a list is malformed input.
Rows(txs) == Len(txs.items)

\* app.py 153-158: a raising conversion is replaced by an empty DataFrame.
NormalizeBlock(txs, convRaises) ==
  IF convRaises
    THEN [df |-> 0, msg |-> "err_convert"]
    ELSE [df |-> Rows(txs), msg |-> "none"]

\* extract_wallet_features: documented defaults for the degenerate cases; for
\* two or more rows the timing and counterparty statistics range over sample
\* values (repeated_ratio = 1 - distinct/n).
ExtractOutcomes(n) ==
  IF n <= 1
    THEN {Vec(n, FreqDefault, RatioDefault, EntropyDefault)}
    ELSE {Vec(n, f, 100 - ((100 * d) \div n), e) :
            f \in {HighFreqThreshold, HighFreqThreshold + 1},
            d \in {1, n},
            e \in {0, LowEntropyThreshold}}

\* Mutant: a failed prediction falls back to a default score.
ModelInference_SilentDefault(sgv, f) ==
  IF sgv = NoModel
    THEN [shown |-> FALSE, msg |-> "warn_no_model", feat |-> f]
  ELSE [shown |-> TRUE, msg |-> "none", feat |-> f]

\* Mutant: with a model loaded the vector is rescaled in place before it is
\* scored (every value becomes 0), and the heuristic block reads the result.
ModelInference_RescalesInPlace(sgv, f) ==
  IF sgv = NoModel
    THEN [shown |-> FALSE, msg |-> "warn_no_model", feat |-> f]
  ELSE IF PredictReturns(sgv, f)
    THEN [shown |-> TRUE, msg |-> "none", feat |-> [k \in DOMAIN f |-> 0]]
  ELSE [shown |-> FALSE, msg |-> "err_predict", feat |-> [k \in DOMAIN f |-> 0]]

\* app.py 164-175: model inference block.  feat is handed to predict_score
\* and read again by the heuristic block; predict_score leaves it as it is.
ModelInference(sgv, f) ==
  IF sgv = NoModel
    THEN [shown |-> FALSE, msg |-> "warn_no_model", feat |-> f]
  ELSE IF PredictReturns(sgv, f)
    THEN [shown |-> TRUE, msg |-> "none", feat |-> f]
  ELSE [shown |-> FALSE, msg |-> "err_predict", feat |-> f]

AddMsg(ms, m) == IF m = "none" THEN ms ELSE ms \cup {m}


\* ------------------------------------------------------------------ state
Sessions == {"s1", "s2"}
Buttons == {"none", "reload", "train", "analyze"}

VARIABLES
  file,      \* contents of MODEL_PATH
  cache,     \* st.cache_resource entry of load_model: "miss" or the cached model
  pc,        \* per session: position of the script run
  button,    \* per session: the button whose click started the run
  sg,        \* per session: the model handle of the run
  status,    \* per session: model_status
  report,    \* per session: outcomes the sidebar controls reported
  loaded,    \* per session: result of the run's latest load_model call
  pending,   \* per session: uploaded bytes being written
  txs,       \* per session: the fetched transaction list
  fetched,   \* per session: whether fetch_transactions was called and how it ended
  df,        \* per session: rows of the normalized table
  feat,      \* per session: the extracted feature vector
  shown,     \* per session: a score, label and raw score were displayed
  msgs,      \* per session: messages of the main area
  featOut,   \* per session: the vector as the heuristic block reads it
  expl,      \* per session: the heuristic flags written
  hfeat, hout, hpc,            \* evaluation of the heuristic block on a vector
  fresp, fprint, fret, fpc     \* one call of fetch_transactions

appVars == <<file, cache, pc, button, sg, status, report, loaded, pending, txs,
             fetched, df, feat, shown, msgs, featOut, expl>>
heurVars == <<hfeat, hout, hpc>>
fetchVars == <<fresp, fprint, fret, fpc>>
vars == <<appVars, heurVars, fetchVars>>

analysisVars == <<txs, fetched, df, feat, shown, msgs, featOut, expl>>
others == <<heurVars, fetchVars>>

\* Where the script goes after the upload block.
AfterUpload(b) == IF b = "train" THEN "train" ELSE IF b = "analyze" THEN "analyze" ELSE "done"

\* A script run starts (a widget interaction, or a new session) and runs
\* app.py 64-72.
Startup(s) ==
  /\ pc[s] = "idle"
  /\ \E b \in Buttons :
       LET r == StartupBlock(file, cache)
       IN  /\ button' = [button EXCEPT ![s] = b]
           /\ sg' = [sg EXCEPT ![s] = r.sg]
           /\ status' = [status EXCEPT ![s] = r.status]
           /\ loaded' = [loaded EXCEPT ![s] = r.loaded]
           /\ cache' = r.cache
           /\ pc' = [pc EXCEPT ![s] = IF b = "reload" THEN "reload" ELSE "upload"]
  /\ UNCHANGED <<file, report, pending, analysisVars, others>>

\* app.py 74-82: Reload model.
Reload(s) ==
  /\ pc[s] = "reload"
  /\ IF file = "absent"
       THEN /\ report' = [report EXCEPT ![s] = report[s] \cup {"no_model_file"}]
            /\ UNCHANGED <<sg, loaded, cache>>
       ELSE LET l == load_model(file, cache)
            IN  /\ cache' = l.cache
                /\ loaded' = [loaded EXCEPT ![s] = LoadRecord(l)]
                /\ sg' = [sg EXCEPT ![s] = IF l.ok THEN l.model ELSE sg[s]]
                /\ report' = [report EXCEPT ![s] = report[s] \cup {IF l.ok THEN "reloaded" ELSE "reload_failed"}]
  /\ pc' = [pc EXCEPT ![s] = "upload"]
  /\ UNCHANGED <<file, button, status, pending, analysisVars, others>>

\* app.py 85-89: the uploader holds no file, or write_bytes opens MODEL_PATH
\* for writing (truncating it), or fails to.
UploadOpen(s) ==
  /\ pc[s] = "upload"
  /\ \E u \in {"none"} \cup Blobs, opens \in BOOLEAN :
       IF u = "none"
         THEN /\ pc' = [pc EXCEPT ![s] = AfterUpload(button[s])]
              /\ UNCHANGED <<file, pending, report>>
       ELSE IF ~opens
         THEN /\ pc' = [pc EXCEPT ![s] = AfterUpload(button[s])]
              /\ report' = [report EXCEPT ![s] = report[s] \cup {"upload_failed"}]
              /\ UNCHANGED <<file, pending>>
       ELSE /\ file' = "partial"
            /\ pending' = [pending EXCEPT ![s] = u]
            /\ pc' = [pc EXCEPT ![s] = "uploadWrite"]
            /\ UNCHANGED report
  /\ UNCHANGED <<cache, button, sg, status, loaded, analysisVars, others>>

\* app.py 89: write_bytes writes the data and closes the file.  If another
\* writer completed in between, the bytes of the two may be mixed.
UploadWrite(s) ==
  /\ pc[s] = "uploadWrite"
  /\ \E result \in (IF file = "partial" THEN {pending[s]} ELSE {pending[s], "corrupt"}) :
       file' = result
  /\ pending' = [pending EXCEPT ![s] = "none"]
  /\ pc' = [pc EXCEPT ![s] = "uploadLoad"]
  /\ UNCHANGED <<cache, button, sg, status, report, loaded, analysisVars, others>>

\* app.py 90-93
UploadLoad(s) ==
  /\ pc[s] = "uploadLoad"
  /\ LET l == load_model(file, cache)
     IN  /\ cache' = l.cache
         /\ loaded' = [loaded EXCEPT ![s] = LoadRecord(l)]
         /\ sg' = [sg EXCEPT ![s] = IF l.ok THEN l.model ELSE sg[s]]
         /\ report' = [report EXCEPT ![s] = report[s] \cup {IF l.ok THEN "uploaded" ELSE "upload_failed"}]
  /\ pc' = [pc EXCEPT ![s] = AfterUpload(button[s])]
  /\ UNCHANGED <<file, button, status, pending, analysisVars, others>>

\* app.py 97-101, 104-108: read the simulated features, train and persist.
Train(s) ==
  /\ pc[s] = "train"
  /\ \E simExists \in BOOLEAN, trains \in BOOLEAN, b \in GoodBlobs :
       IF ~simExists
         THEN /\ report' = [report EXCEPT ![s] = report[s] \cup {"no_sim_features"}]
              /\ pc' = [pc EXCEPT ![s] = "done"]
              /\ UNCHANGED file
       ELSE IF ~trains
         THEN /\ report' = [report EXCEPT ![s] = report[s] \cup {"train_failed"}]
              /\ pc' = [pc EXCEPT ![s] = "done"]
              /\ UNCHANGED file
       ELSE /\ file' = b
            /\ pc' = [pc EXCEPT ![s] = "trainLoad"]
            /\ UNCHANGED report
  /\ UNCHANGED <<cache, button, sg, status, loaded, pending, analysisVars, others>>

\* app.py 102-106
TrainLoad(s) ==
  /\ pc[s] = "trainLoad"
  /\ LET l == load_model(file, cache)
     IN  /\ cache' = l.cache
         /\ loaded' = [loaded EXCEPT ![s] = LoadRecord(l)]
         /\ sg' = [sg EXCEPT ![s] = IF l.ok THEN l.model ELSE sg[s]]
         /\ report' = [report EXCEPT ![s] = report[s] \cup {IF l.ok THEN "trained" ELSE "train_failed"}]
  /\ pc' = [pc EXCEPT ![s] = "done"]
  /\ UNCHANGED <<file, button, status, pending, analysisVars, others>>


\* Everything fetch_transactions (or the stub) can hand to its caller.
FetchCalls ==
  {fetch_transactions(r, p) : r \in Responses, p \in BOOLEAN} \cup {fetch_transactions_stub}

\* app.py 128-198: Analyze pressed.  With the sample box ticked or without a
\* wallet the pipeline does not start; otherwise fetch, normalize, extract,
\* score and explain run in this order, each on the result of the one before.
\* txs_to_dataframe may or may not raise on a value that is not a list.
Analyze(s) ==
  /\ pc[s] = "analyze"
  /\ \E useSample \in BOOLEAN, wallet \in BOOLEAN :
       IF useSample \/ ~wallet
         THEN /\ msgs' = [msgs EXCEPT ![s] = IF useSample THEN {"sample"} ELSE {"err_no_wallet"}]
              /\ UNCHANGED <<txs, fetched, df, feat, shown, featOut, expl>>
         ELSE \E key \in BOOLEAN, call \in FetchCalls :
                LET fb == FetchBlock(key, call)
                IN  \E convRaises \in (IF fb.txs.kind = "list" THEN {FALSE} ELSE BOOLEAN) :
                      LET nb == NormalizeBlock(fb.txs, convRaises)
                      IN  \E f \in ExtractOutcomes(nb.df) :
                            LET mi == ModelInference(sg[s], f)
                            IN  /\ txs' = [txs EXCEPT ![s] = fb.txs]
                                /\ fetched' = [fetched EXCEPT ![s] = fb.fetched]
                                /\ df' = [df EXCEPT ![s] = nb.df]
                                /\ feat' = [feat EXCEPT ![s] = f]
                                /\ shown' = [shown EXCEPT ![s] = mi.shown]
                                /\ msgs' = [msgs EXCEPT ![s] =
                                              AddMsg(AddMsg(AddMsg({}, fb.msg), nb.msg), mi.msg)]
                                /\ featOut' = [featOut EXCEPT ![s] = mi.feat]
                                /\ expl' = [expl EXCEPT ![s] = HeuristicFlags(mi.feat)]
  /\ pc' = [pc EXCEPT ![s] = "done"]
  /\ UNCHANGED <<file, cache, button, sg, status, report, loaded, pending, others>>

\* The script run is over; the next one starts from a fresh script state
\* (only the file and the cache outlive a run).
EndRun(s) ==
  /\ pc[s] = "done"
  /\ pc' = [pc EXCEPT ![s] = "idle"]
  /\ button' = [button EXCEPT ![s] = "none"]
  /\ sg' = [sg EXCEPT ![s] = NoModel]
  /\ status' = [status EXCEPT ![s] = "Not loaded"]
  /\ report' = [report EXCEPT ![s] = {}]
  /\ loaded' = [loaded EXCEPT ![s] = NotLoaded]
  /\ txs' = [txs EXCEPT ![s] = EmptyList]
  /\ fetched' = [fetched EXCEPT ![s] = "none"]
  /\ df' = [df EXCEPT ![s] = 0]
  /\ feat' = [feat EXCEPT ![s] = NoFeat]
  /\ shown' = [shown EXCEPT ![s] = FALSE]
  /\ msgs' = [msgs EXCEPT ![s] = {}]
  /\ featOut' = [featOut EXCEPT ![s] = NoFeat]
  /\ expl' = [expl EXCEPT ![s] = <<>>]
  /\ UNCHANGED <<file, cache, pending, others>>

IdleSessions(v) == [s \in Sessions |-> v]
IdleResponse ==
  [kind |-> "conn_error", status |-> "missing", result |-> [kind |-> "missing", items |-> <<>>]]

\* The process starts: MODEL_PATH may hold anything a previous process left,
\* the load cache is empty, no session is running the script.
Init ==
  /\ file \in {"absent"} \cup Blobs
  /\ cache = "miss"
  /\ pc = IdleSessions("idle")
  /\ button = IdleSessions("none")
  /\ sg = IdleSessions(NoModel)
  /\ status = IdleSessions("Not loaded")
  /\ report = IdleSessions({})
  /\ loaded = IdleSessions(NotLoaded)
  /\ pending = IdleSessions("none")
  /\ txs = IdleSessions(EmptyList)
  /\ fetched = IdleSessions("none")
  /\ df = IdleSessions(0)
  /\ feat = IdleSessions(NoFeat)
  /\ shown = IdleSessions(FALSE)
  /\ msgs = IdleSessions({})
  /\ featOut = IdleSessions(NoFeat)
  /\ expl = IdleSessions(<<>>)
  /\ hfeat = NoFeat /\ hout = <<>> /\ hpc = "off"
  /\ fresp = IdleResponse /\ fprint = TRUE /\ fret = Returned(EmptyList) /\ fpc = "off"

Next ==
  \/ \E s \in Sessions : Startup(s)
  \/ \E s \in Sessions : Reload(s)
  \/ \E s \in Sessions : UploadOpen(s)
  \/ \E s \in Sessions : UploadWrite(s)
  \/ \E s \in Sessions : UploadLoad(s)
  \/ \E s \in Sessions : Train(s)
  \/ \E s \in Sessions : TrainLoad(s)
  \/ \E s \in Sessions : Analyze(s)
  \/ \E s \in Sessions : EndRun(s)

Spec == Init /\ [][Next]_vars

\* ------------------------------------------- the heuristic block on its own
\* Every dict over a subset of the schema keys, with values around the
\* thresholds and the defaults.
TxCountVals == {0, FewTxThreshold - 1, FewTxThreshold, FewTxThreshold + 1}
FreqVals == {0, HighFreqThreshold, HighFreqThreshold + 1}
RatioVals == {0, RepeatedRatioThreshold, RepeatedRatioThreshold + 1}
EntropyVals == {LowEntropyThreshold - 1, LowEntropyThreshold, EntropyDefault}
ValsOf(k) ==
  CASE k = "tx_count" -> TxCountVals
    [] k = "tx_freq_per_day" -> FreqVals
    [] k = "repeated_ratio" -> RatioVals
    [] k = "hour_entropy" -> EntropyVals
AllVals == UNION {ValsOf(k) : k \in Keys}
Vectors ==
  UNION {{f \in [K -> AllVals] : \A k \in K : f[k] \in ValsOf(k)} : K \in SUBSET Keys}

HeurInit ==
  /\ file = "absent"
  /\ cache = "miss"
  /\ pc = IdleSessions("idle")
  /\ button = IdleSessions("none")
  /\ sg = IdleSessions(NoModel)
  /\ status = IdleSessions("Not loaded")
  /\ report = IdleSessions({})
  /\ loaded = IdleSessions(NotLoaded)
  /\ pending = IdleSessions("none")
  /\ txs = IdleSessions(EmptyList)
  /\ fetched = IdleSessions("none")
  /\ df = IdleSessions(0)
  /\ feat = IdleSessions(NoFeat)
  /\ shown = IdleSessions(FALSE)
  /\ msgs = IdleSessions({})
  /\ featOut = IdleSessions(NoFeat)
  /\ expl = IdleSessions(<<>>)
  /\ fresp = IdleResponse /\ fprint = TRUE /\ fret = Returned(EmptyList) /\ fpc = "off"
  /\ hout = <<>> /\ hpc = "ready"
  /\ hfeat \in Vectors

\* app.py 179-189 run on the vector.
Evaluate ==
  /\ hpc = "ready"
  /\ hout' = HeuristicFlags(hfeat)
  /\ hpc' = "evaluated"
  /\ UNCHANGED <<hfeat, appVars, fetchVars>>

SpecHeur == HeurInit /\ [][Evaluate]_vars

\* ------------------------------------------- fetch_transactions on its own
FetchInit ==
  /\ file = "absent"
  /\ cache = "miss"
  /\ pc = IdleSessions("idle")
  /\ button = IdleSessions("none")
  /\ sg = IdleSessions(NoModel)
  /\ status = IdleSessions("Not loaded")
  /\ report = IdleSessions({})
  /\ loaded = IdleSessions(NotLoaded)
  /\ pending = IdleSessions("none")
  /\ txs = IdleSessions(EmptyList)
  /\ fetched = IdleSessions("none")
  /\ df = IdleSessions(0)
  /\ feat = IdleSessions(NoFeat)
  /\ shown = IdleSessions(FALSE)
  /\ msgs = IdleSessions({})
  /\ featOut = IdleSessions(NoFeat)
  /\ expl = IdleSessions(<<>>)
  /\ hfeat = NoFeat /\ hout = <<>> /\ hpc = "off"
  /\ fret = Returned(EmptyList) /\ fpc = "ready"
  /\ fprint = TRUE
  /\ fresp \in Responses

\* etherscan.py 16-39 called once.
CallFetch ==
  /\ fpc = "ready"
  /\ fret' = fetch_transactions(fresp, fprint)
  /\ fpc' = "returned"
  /\ UNCHANGED <<fresp, fprint, appVars, heurVars>>

\* The caller asks again: another response, the last return value still held;
\* by now the output stream of the process may have stopped taking the
\* warning.
NextRequest ==
  /\ fpc = "returned"
  /\ fresp' \in Responses
  /\ fprint' \in BOOLEAN
  /\ fpc' = "ready"
  /\ UNCHANGED <<fret, appVars, heurVars>>

FetchNext == CallFetch \/ NextRequest
SpecFetch == FetchInit /\ [][FetchNext]_vars


\* ================================================================== claims
Range(seq) == {seq[i] : i \in 1..Len(seq)}
RuleOrder == <<FlagFewTx, FlagHighFreq, FlagRepeated, FlagLowEntropy>>
IsRuleFlag(fl) == fl \in RuleFlags

\* The rule table of the design: strict thresholds 3, 50, 0.6 and 1.0 on the
\* value of the key, or on 0, 0, 0 and 10 when the key is absent.
ValueOr(v, k, d) == IF k \in DOMAIN v THEN v[k] ELSE d
RuleHolds(fl, v) ==
  CASE fl = FlagFewTx -> ValueOr(v, "tx_count", 0) < 3
    [] fl = FlagHighFreq -> ValueOr(v, "tx_freq_per_day", 0) > 50
    [] fl = FlagRepeated -> ValueOr(v, "repeated_ratio", 0) > 60
    [] fl = FlagLowEntropy -> ValueOr(v, "hour_entropy", 100) < 10
    [] OTHER -> FALSE
AtThresholds == Vec(3, 50, 60, 10)
EmptySetDefaults == Vec(0, 0, 0, 100)

\* C1: a rule's flag is emitted if and only if its (strict) condition holds, the
\* emitted rule flags appear in the order few-transactions, high-frequency,
\* repeated-counterparty, low-entropy, and a vector exactly at the four
\* thresholds fires no rule.
C1_FlagsIffRuleInFixedOrder ==
  hpc = "evaluated" =>
    /\ \A fl \in RuleFlags : fl \in Range(hout) <=> RuleHolds(fl, hfeat)
    /\ LET Fired(fl) == RuleHolds(fl, hfeat)
       IN  SelectSeq(hout, IsRuleFlag) = SelectSeq(RuleOrder, Fired)
    /\ hfeat = AtThresholds => Range(hout) \cap RuleFlags = {}

C1_Witness ==
  /\ hpc = "evaluated"
  /\ hfeat = AtThresholds
  /\ hout = <<FlagNone>>

\* C2: the heuristic output is never empty; the "no flags" entry appears if and
\* only if no rule fires, and then it is the only entry.
C2_NoFlagsIffNoRule ==
  hpc = "evaluated" =>
    /\ hout # <<>>
    /\ FlagNone \in Range(hout) <=> (\A fl \in RuleFlags : ~RuleHolds(fl, hfeat))
    /\ FlagNone \in Range(hout) => hout = <<FlagNone>>

C2_Witness ==
  /\ hpc = "evaluated"
  /\ hfeat = Vec(4, 0, 0, 100)
  /\ hout = <<FlagNone>>

\* C3: fetch_transactions never raises and always returns a sequence: the empty
\* one for every failure outcome (connection error or timeout, non-2xx status,
\* body that is not JSON, JSON that is not an object, API status other than "1",
\* missing or null "result"), the list of records for a well-formed success.
FailureOutcome(r) ==
  \/ r.kind # "object"
  \/ r.status # "1"
  \/ r.result.kind # "list"
C3_NeverRaisesReturnsSequence ==
  fpc = "returned" =>
    /\ ~fret.raised
    /\ fret.value.kind = "list"
    /\ FailureOutcome(fresp) => fret.value = EmptyList
    /\ ~FailureOutcome(fresp) => fret.value = fresp.result

\* C4: whenever a model-replacing control (reload, upload, train) reports
\* success while a complete artifact is stored at the model path, the handle
\* the run goes on to score with is the model deserialized from that artifact.
ReplacementSucceeded == {"reloaded", "uploaded", "trained"}
C4_SuccessMeansStoredArtifactLoaded ==
  [][\A s \in Sessions :
       ((report'[s] \ report[s]) \cap ReplacementSucceeded # {} /\ file' \in Blobs)
         => sg'[s] = Deserialize(file')]_vars

\* C5: when the run's latest load of the artifact failed, the failure is
\* reported and the handle is absent; an Analyze of a wallet in that run still
\* shows the full feature vector and the heuristic flags, and shows no score.
LoadFailed(s) == loaded[s].src # "none" /\ ~loaded[s].ok
Analysed(s) == pc[s] = "done" /\ fetched[s] # "none"
FailureReports == {"reload_failed", "upload_failed", "train_failed"}
C5_FailedLoadLeavesNoModel ==
  \A s \in Sessions :
    LoadFailed(s) =>
      /\ sg[s] = NoModel
      /\ status[s] = "Failed to load" \/ report[s] \cap FailureReports # {}
      /\ Analysed(s) =>
           /\ DOMAIN feat[s] = Keys
           /\ expl[s] # <<>>
           /\ Range(expl[s]) \subseteq RuleFlags \cup {FlagNone}
           /\ ~shown[s]
           /\ "warn_no_model" \in msgs[s]

C5_Witness ==
  \E s \in Sessions :
    /\ LoadFailed(s)
    /\ status[s] = "Failed to load"
    /\ Analysed(s)
    /\ ~shown[s]
    /\ expl[s] # <<>>

\* C6: a score is shown only with a model loaded and a scoring call that
\* returned; without a model a warning is shown and no score, and when the
\* scoring call fails an error is shown and no score.
C6_NoSilentDefaultScore ==
  \A s \in Sessions :
    /\ shown[s] => Analysed(s) /\ sg[s] # NoModel /\ PredictReturns(sg[s], feat[s])
    /\ Analysed(s) /\ sg[s] = NoModel => ~shown[s] /\ "warn_no_model" \in msgs[s]
    /\ Analysed(s) /\ sg[s] # NoModel /\ ~PredictReturns(sg[s], feat[s])
         => ~shown[s] /\ "err_predict" \in msgs[s]

C6_Witness ==
  \E s \in Sessions :
    /\ Analysed(s)
    /\ sg[s] = "m_other_schema"
    /\ ~shown[s]
    /\ "err_predict" \in msgs[s]

\* C7: an analysis of a wallet goes on with zero transactions when the source
\* yields nothing usable: without a key the fetch is not called and txs is the
\* empty list, a raising fetch resets txs to the empty list, a failed
\* normalization gives the empty table; every such analysis still extracts the
\* full vector (with tx_count 0) and writes heuristic flags, each stage working
\* on the result of the stage before it.
NothingUsable(s) == txs[s].kind # "list" \/ txs[s].items = <<>>
C7_ProceedsWithZeroTransactions ==
  \A s \in Sessions :
    Analysed(s) =>
      /\ "info_no_key" \in msgs[s] <=> fetched[s] = "skipped"
      /\ fetched[s] = "skipped" => txs[s] = EmptyList
      /\ fetched[s] = "raised" => txs[s] = EmptyList /\ "err_fetch" \in msgs[s]
      /\ "err_convert" \in msgs[s] => df[s] = 0
      /\ NothingUsable(s) => df[s] = 0 /\ feat[s]["tx_count"] = 0
      /\ "err_convert" \notin msgs[s] => df[s] = Rows(txs[s])
      /\ DOMAIN feat[s] = Keys
      /\ feat[s]["tx_count"] = df[s]
      /\ expl[s] # <<>>
      /\ Range(expl[s]) \subseteq RuleFlags \cup {FlagNone}

C7_Witness ==
  \E s \in Sessions :
    /\ Analysed(s)
    /\ fetched[s] = "skipped"
    /\ "info_no_key" \in msgs[s]
    /\ txs[s] = EmptyList
    /\ feat[s]["tx_count"] = 0
    /\ expl[s] # <<>>

\* C8: for an empty transaction list the extracted vector is the documented
\* defaults (tx_count 0, tx_freq_per_day 0, repeated_ratio 0, hour_entropy 10)
\* and the flags are exactly the "very few transactions" flag, without the
\* low-entropy flag; a vector with no key at all gets the same single flag.
C8_EmptyListOnlyFewTxFlag ==
  /\ HeuristicFlags(NoFeat) = <<FlagFewTx>>
  /\ \A s \in Sessions :
       Analysed(s) /\ txs[s] = EmptyList =>
         /\ feat[s] = EmptySetDefaults
         /\ expl[s] = <<FlagFewTx>>
         /\ FlagLowEntropy \notin Range(expl[s])

C8_Witness ==
  \E s \in Sessions :
    /\ Analysed(s)
    /\ fetched[s] = "returned"
    /\ txs[s] = EmptyList
    /\ feat[s] = EmptySetDefaults
    /\ expl[s] = <<FlagFewTx>>

\* C9: model replacement is an atomic swap for concurrent readers: no load ever
\* reads the artifact while it is partially written, so a reader's handle is
\* always absent or a model deserialized from a complete artifact.
C9_ReadersNeverSeePartialArtifact ==
  \A s \in Sessions :
    /\ loaded[s].src # "partial"
    /\ sg[s] \in {NoModel} \cup Models

\* C10: the heuristic flags depend on the extracted vector only: two analyses
\* with the same vector write the same flags whatever their model handles and
\* scoring outcomes, and the heuristic block reads the vector as extracted.
C10_FlagsDependOnVectorOnly ==
  /\ \A s \in Sessions : Analysed(s) => featOut[s] = feat[s]
  /\ \A s, t \in Sessions :
       Analysed(s) /\ Analysed(t) /\ feat[s] = feat[t] => expl[s] = expl[t]

C10_Witness ==
  \E s, t \in Sessions :
    /\ Analysed(s) /\ Analysed(t)
    /\ sg[s] = NoModel /\ ~shown[s]
    /\ sg[t] # NoModel /\ shown[t]
    /\ feat[s] = feat[t]
    /\ expl[s] = expl[t]

====
